---- MODULE Spec2Model ----
(***************************************************************************)
(* Model of the slip reconciliation matcher of check_transfer.py:          *)
(* find_candidate_transactions (the store query and its client-side        *)
(* annotation), score_candidate, and check_slip_match (strict filtering,   *)
(* scoring, the status decision, and the write-back UPDATE).               *)
(*                                                                         *)
(* Representation.  Amounts are integer satang (1/100 THB), so Decimal     *)
(* arithmetic is exact.  Dates are day numbers.  Times of day are seconds  *)
(* since midnight.  Account strings are sequences of one-character         *)
(* strings.  Python None / SQL NULL is NoneInt for numbers, the empty      *)
(* sequence for account strings and names (the code tests them with        *)
(* "if s" / "x or ''", which does not tell None from ''), "" for the       *)
(* transaction id and NULL for status_reconcile.  Scores are kept in       *)
(* units of 1/60, so the float score times 60 is an integer.               *)
(***************************************************************************)
EXTENDS Integers, Sequences, FiniteSets, TLC

----------------------------------------------------------------------------
(* Bounds of the model *)

\* number of check_slip_match calls in one behaviour
MaxCalls == 2
\* number of rows of bank_incoming_transaction in the initial store
MaxRecords == 2

----------------------------------------------------------------------------
(* Values *)

NoneInt == 0 - 1
NULL == "NULL"
NoAccount == << >>

Min(a, b) == IF a <= b THEN a ELSE b
Abs(a) == IF a < 0 THEN 0 - a ELSE a

HMS(h, m, s) == h * 3600 + m * 60 + s

Digits == {"0", "1", "2", "3", "4", "5", "6", "7", "8", "9"}
Wildcards == {"X", "x", "*"}

\* [ch for ch in s if keep(ch)]
RECURSIVE FilterChars(_, _)
FilterChars(s, keep) ==
    IF s = << >> THEN << >>
    ELSE (IF Head(s) \in keep THEN <<Head(s)>> ELSE << >>) \o FilterChars(Tail(s), keep)

\* ''.join(ch for ch in str(s) if ch.isdigit())
DigitsOf(s) == FilterChars(s, Digits)

\* s[-n:]
LastN(s, n) == IF Len(s) <= n THEN s ELSE SubSeq(s, Len(s) - n + 1, Len(s))

\* the case folding ILIKE applies (the only letters of the alphabet are X and x)
Fold(ch) == IF ch = "X" THEN "x" ELSE ch

\* column ILIKE '%pat%': a NULL column never matches
ILikeContains(col, pat) ==
    /\ col # NoAccount
    /\ \E i \in 1..(Len(col) - Len(pat) + 1) :
          \A j \in 1..Len(pat) : Fold(col[i + j - 1]) = Fold(pat[j])

----------------------------------------------------------------------------
(* Field Normalizer: the helpers nested in check_slip_match *)

normalize_account(s) == FilterChars(s, Digits \cup Wildcards)

\* mutant: the lengths are not compared, the shorter string decides
positional_account_match_AnyLength(a, b) ==
    LET na == normalize_account(a)
        nb == normalize_account(b)
    IN  /\ a # NoAccount /\ b # NoAccount
        /\ na # << >> /\ nb # << >>
        /\ \A i \in 1..Min(Len(na), Len(nb)) :
              \/ na[i] \in Wildcards
              \/ nb[i] \in Wildcards
              \/ na[i] = nb[i]

positional_account_match(a, b) ==
    LET na == normalize_account(a)
        nb == normalize_account(b)
    IN  /\ a # NoAccount /\ b # NoAccount
        /\ na # << >> /\ nb # << >>
        /\ Len(na) = Len(nb)
        /\ \A i \in 1..Len(na) :
              \/ na[i] \in Wildcards
              \/ nb[i] \in Wildcards
              \/ na[i] = nb[i]

\* mutant: the slice takes one digit too few
last_n_digits_match_OffByOne(a, b, n) ==
    LET da == DigitsOf(a)
        db == DigitsOf(b)
    IN  /\ a # NoAccount /\ b # NoAccount
        /\ Len(da) >= n /\ Len(db) >= n
        /\ LastN(da, n - 1) = LastN(db, n - 1)

last_n_digits_match(a, b, n) ==
    LET da == DigitsOf(a)
        db == DigitsOf(b)
    IN  /\ a # NoAccount /\ b # NoAccount
        /\ Len(da) >= n /\ Len(db) >= n
        /\ LastN(da, n) = LastN(db, n)

----------------------------------------------------------------------------
(* Candidate Store Gateway: find_candidate_transactions *)

\* mutant: the amount is left out of the WHERE clause
WhereClause_NoAmount(r, a) ==
    /\ a.transfer_date # NoneInt =>
          /\ r.transfer_date # NoneInt
          /\ a.transfer_date - a.date_tolerance_days <= r.transfer_date
          /\ r.transfer_date <= a.transfer_date + a.date_tolerance_days
    /\ a.receiver_account_number # NoAccount =>
          LET digits == DigitsOf(a.receiver_account_number)
          IN  IF Len(digits) >= 3
              THEN ILikeContains(r.receiver_account_number, LastN(digits, 4))
              ELSE ILikeContains(r.receiver_account_number, a.receiver_account_number)
    /\ a.sender_account_number # NoAccount =>
          LET sdigits == DigitsOf(a.sender_account_number)
              pat == IF Len(sdigits) >= 3 THEN LastN(sdigits, 4)
                     ELSE a.sender_account_number
          IN  \/ ILikeContains(r.sender_account_number, pat)
              \/ ILikeContains(r.sender_account, pat)
    /\ a.sender_name # NoAccount => ILikeContains(r.sender_name, a.sender_name)

\* The WHERE clause built from the arguments that are provided.  A comparison
\* with a NULL column is not true, so such a row is not selected.
WhereClause(r, a) ==
    /\ a.amount # NoneInt =>
          /\ r.amount # NoneInt
          /\ IF a.amount_tolerance # 0
             THEN /\ a.amount - a.amount_tolerance <= r.amount
                  /\ r.amount <= a.amount + a.amount_tolerance
             ELSE r.amount = a.amount
    /\ a.transfer_date # NoneInt =>
          /\ r.transfer_date # NoneInt
          /\ a.transfer_date - a.date_tolerance_days <= r.transfer_date
          /\ r.transfer_date <= a.transfer_date + a.date_tolerance_days
    /\ a.receiver_account_number # NoAccount =>
          LET digits == DigitsOf(a.receiver_account_number)
          IN  IF Len(digits) >= 3
              THEN ILikeContains(r.receiver_account_number, LastN(digits, 4))
              ELSE ILikeContains(r.receiver_account_number, a.receiver_account_number)
    /\ a.sender_account_number # NoAccount =>
          LET sdigits == DigitsOf(a.sender_account_number)
              pat == IF Len(sdigits) >= 3 THEN LastN(sdigits, 4)
                     ELSE a.sender_account_number
          IN  \/ ILikeContains(r.sender_account_number, pat)
              \/ ILikeContains(r.sender_account, pat)
    /\ a.sender_name # NoAccount => ILikeContains(r.sender_name, a.sender_name)

\* ORDER BY transfer_date DESC, api_called_at DESC NULLS LAST: r1 is strictly
\* before r2.  (DESC alone puts a NULL transfer_date first.)
DateRank(r) == IF r.transfer_date = NoneInt THEN 1000000 ELSE r.transfer_date
OrderedBefore(r1, r2) ==
    \/ DateRank(r1) > DateRank(r2)
    \/ /\ DateRank(r1) = DateRank(r2)
       /\ r1.api_called_at > r2.api_called_at

\* What cur.fetchall() can return for the SELECT on store st: the selected rows
\* in an order the ORDER BY allows (rows that tie on both keys come in any
\* order), cut to LIMIT rows.
SelectedKeys(st, a) == {k \in DOMAIN st : WhereClause(st[k], a)}
FetchAll(st, a) ==
    LET K == SelectedKeys(st, a)
        n == Cardinality(K)
        orders == {s \in [1..n -> K] :
                      /\ \A i, j \in 1..n : i # j => s[i] # s[j]
                      /\ \A i, j \in 1..n : i < j => ~OrderedBefore(st[s[j]], st[s[i]])}
    IN  {[i \in 1..Min(n, a.limit) |-> st[s[i]]] : s \in orders}

\* mutant: the difference on the clock face without the wrap at midnight
TimeDiffSeconds_NoWrap(db_t, q_t) ==
    IF q_t # NoneInt /\ db_t # NoneInt
    THEN Abs(db_t - q_t)
    ELSE NoneInt

\* time_diff_seconds of a stored time and the query time (lines 149-163)
TimeDiffSeconds(db_t, q_t) ==
    IF q_t # NoneInt /\ db_t # NoneInt
    THEN LET diff == Abs(db_t - q_t) IN Min(diff, 24 * 3600 - diff)
    ELSE NoneInt

\* amount_diff of a stored amount and the query amount (lines 165-170)
AmountDiff(row_amount, amount) ==
    IF row_amount # NoneInt /\ amount # NoneInt THEN Abs(row_amount - amount)
    ELSE NoneInt

Annotate(r, a) ==
    [key |-> r.key, id |-> r.id, transaction_id |-> r.transaction_id,
     amount |-> r.amount, transfer_date |-> r.transfer_date,
     transfer_time |-> r.transfer_time,
     sender_account_number |-> r.sender_account_number,
     sender_account |-> r.sender_account,
     status_reconcile |-> r.status_reconcile,
     time_diff_seconds |-> TimeDiffSeconds(r.transfer_time, a.transfer_time),
     amount_diff |-> AmountDiff(r.amount, a.amount),
     sender_match_method |-> "none"]

\* (float(ad) if ad is not None else 1e12, float(td) if td is not None else 1e12).
\* 1e12 is beyond the integers of the checker; Large stands for it, above every
\* amount difference (in satang) and every time difference the model can form.
Large == 2 * 1000 * 1000 * 1000
sort_key(r) ==
    <<IF r.amount_diff # NoneInt THEN r.amount_diff ELSE Large,
      IF r.time_diff_seconds # NoneInt THEN r.time_diff_seconds ELSE Large>>

PairLess(x, y) == x[1] < y[1] \/ (x[1] = y[1] /\ x[2] < y[2])

\* list.sort(key=...) is a stable sort.  Keyed entries are <<key, item>> with
\* key a pair of integers.
RECURSIVE InsertStable(_, _)
InsertStable(sorted, x) ==
    IF sorted = << >> THEN <<x>>
    ELSE IF PairLess(x[1], Head(sorted)[1]) THEN <<x>> \o sorted
    ELSE <<Head(sorted)>> \o InsertStable(Tail(sorted), x)

RECURSIVE StableSort(_)
StableSort(s) ==
    IF s = << >> THEN << >>
    ELSE InsertStable(StableSort(SubSeq(s, 1, Len(s) - 1)), s[Len(s)])

\* mutant: the rows beyond the time tolerance are not dropped
find_candidate_transactions_NoTimeFilter(rows, a) ==
    LET results == [i \in 1..Len(rows) |-> Annotate(rows[i], a)]
        sorted == StableSort([i \in 1..Len(results) |->
                                 <<sort_key(results[i]), results[i]>>])
    IN  [i \in 1..Len(sorted) |-> sorted[i][2]]

\* mutant: the tolerance in minutes is compared with seconds
find_candidate_transactions_Minutes(rows, a) ==
    LET results == [i \in 1..Len(rows) |-> Annotate(rows[i], a)]
        InTol(r) == \/ r.time_diff_seconds = NoneInt
                    \/ r.time_diff_seconds <= a.time_tolerance_minutes
        kept == IF a.transfer_time # NoneInt THEN SelectSeq(results, InTol)
                ELSE results
        sorted == StableSort([i \in 1..Len(kept) |-> <<sort_key(kept[i]), kept[i]>>])
    IN  [i \in 1..Len(sorted) |-> sorted[i][2]]

\* rows: what fetchall returned.  Annotation, the client-side time filter and
\* the final sort.
find_candidate_transactions(rows, a) ==
    LET results == [i \in 1..Len(rows) |-> Annotate(rows[i], a)]
        InTol(r) == \/ r.time_diff_seconds = NoneInt
                    \/ r.time_diff_seconds <= a.time_tolerance_minutes * 60
        kept == IF a.transfer_time # NoneInt THEN SelectSeq(results, InTol)
                ELSE results
        sorted == StableSort([i \in 1..Len(kept) |-> <<sort_key(kept[i]), kept[i]>>])
    IN  [i \in 1..Len(sorted) |-> sorted[i][2]]

----------------------------------------------------------------------------
(* Candidate Scorer *)

\* score_candidate(row) * 60
score_candidate(row) ==
    (IF row.amount_diff = NoneInt THEN 1000000 * 60 ELSE row.amount_diff * 60)
    + (IF row.time_diff_seconds = NoneInt THEN 100000 * 60 ELSE row.time_diff_seconds)
    - (IF row.status_reconcile = "MATCHED" THEN 1000 * 60 ELSE 0)

----------------------------------------------------------------------------
(* Match Evaluator and Reconciliation Orchestrator: check_slip_match *)

\* the arguments check_slip_match hands to find_candidate_transactions: the
\* sender account is not among them, so the Gateway sees its default (None)
GatewayArgs(q) == [q EXCEPT !.sender_account_number = NoAccount]

\* str(c.get('sender_account_number') or c.get('sender_account') or '')
SenderTarget(c) ==
    IF c.sender_account_number # NoAccount THEN c.sender_account_number
    ELSE c.sender_account

\* the sender rule shared by the strict filter and _evaluate_candidate:
\* "positional", "last4", "none" (no query sender account) or "mismatch"
SenderMatch(c, q) ==
    IF q.sender_account_number = NoAccount THEN "none"
    ELSE IF positional_account_match(q.sender_account_number, SenderTarget(c))
         THEN "positional"
    ELSE IF last_n_digits_match(q.sender_account_number, SenderTarget(c), 4)
         THEN "last4"
    ELSE "mismatch"

TimeWithin(c, q) ==
    TimeDiffSeconds(c.transfer_time, q.transfer_time) <= q.time_tolerance_minutes * 60

\* the strict filter of lines 289-346: a check is skipped (passes) when either
\* side is absent
StrictAmtOk(c, q) ==
    IF q.amount # NoneInt /\ c.amount # NoneInt THEN c.amount = q.amount ELSE TRUE
StrictDateOk(c, q) ==
    IF q.transfer_date # NoneInt /\ c.transfer_date # NoneInt
    THEN c.transfer_date = q.transfer_date ELSE TRUE
StrictTimeOk(c, q) ==
    IF q.transfer_time # NoneInt /\ c.transfer_time # NoneInt
    THEN TimeWithin(c, q) ELSE TRUE
StrictPass(c, q) ==
    /\ StrictAmtOk(c, q) /\ StrictDateOk(c, q) /\ StrictTimeOk(c, q)
    /\ SenderMatch(c, q) # "mismatch"

\* a strict passer is annotated with how its sender matched
StrictCandidates(original, q) ==
    LET Pass(c) == StrictPass(c, q)
        passers == SelectSeq(original, Pass)
    IN  [i \in 1..Len(passers) |->
            [passers[i] EXCEPT !.sender_match_method = SenderMatch(passers[i], q)]]

\* _evaluate_candidate: the diagnostic record; here a check fails when either
\* side is absent
evaluate_candidate(c, q) ==
    LET amt_ok == q.amount # NoneInt /\ c.amount # NoneInt /\ c.amount = q.amount
        date_ok == /\ q.transfer_date # NoneInt /\ c.transfer_date # NoneInt
                   /\ c.transfer_date = q.transfer_date
        time_ok == /\ q.transfer_time # NoneInt /\ c.transfer_time # NoneInt
                   /\ TimeWithin(c, q)
        sender_ok == SenderMatch(c, q) # "mismatch"
    IN  [key |-> c.key, id |-> c.id,
         status_reconcile |-> c.status_reconcile,
         amount_diff |-> c.amount_diff,
         time_diff_seconds |-> c.time_diff_seconds,
         sender_match_method |-> c.sender_match_method,
         amount_ok |-> amt_ok, date_ok |-> date_ok,
         time_ok |-> time_ok, sender_ok |-> sender_ok,
         failed_conditions |->
             (IF amt_ok THEN << >> ELSE <<"amount_mismatch">>)
             \o (IF date_ok THEN << >> ELSE <<"date_mismatch">>)
             \o (IF time_ok THEN << >> ELSE <<"time_out_of_range">>)
             \o (IF sender_ok THEN << >> ELSE <<"sender_account_mismatch">>)]

NoRowsMessage == "no rows returned from DB for provided filters"

\* mutant: one condition is enough whatever the size of the working set
DecideStatus_EitherCondition(best_row, n, q) ==
    LET amount_ok == /\ best_row.amount_diff # NoneInt
                     /\ best_row.amount_diff <= q.amount_tolerance
        time_ok == \/ best_row.time_diff_seconds = NoneInt
                   \/ best_row.time_diff_seconds <= q.time_tolerance_minutes * 60
    IN  IF amount_ok \/ time_ok THEN "MATCHED"
        ELSE IF n = 1 THEN "POSSIBLE"
        ELSE "MULTIPLE"

\* the status of lines 457-467, from the best row and the size of the working set
DecideStatus(best_row, n, q) ==
    LET amount_ok == /\ best_row.amount_diff # NoneInt
                     /\ best_row.amount_diff <= q.amount_tolerance
        time_ok == \/ best_row.time_diff_seconds = NoneInt
                   \/ best_row.time_diff_seconds <= q.time_tolerance_minutes * 60
    IN  IF amount_ok /\ time_ok THEN "MATCHED"
        ELSE IF n = 1 THEN (IF amount_ok \/ time_ok THEN "MATCHED" ELSE "POSSIBLE")
        ELSE "MULTIPLE"

\* mutant: the candidates are scored but left in the order they came in
Scored_Unsorted(candidates) ==
    [i \in 1..Len(candidates) |->
        <<(<<score_candidate(candidates[i]), 0>>), candidates[i]>>]

\* candidates scored and sorted by score (scored.sort(key=lambda x: x[0]))
Scored(candidates) ==
    StableSort([i \in 1..Len(candidates) |->
                   <<(<<score_candidate(candidates[i]), 0>>), candidates[i]>>])

\* check_slip_match from the rows fetchall returned up to the result dict of
\* line 479 (or an early NOT_FOUND return); best_row is <<row>> or << >>,
\* best_score <<score>> or << >>
MatchDecision(rows, q) ==
    LET original_candidates == find_candidate_transactions(rows, GatewayArgs(q))
        strict_candidates == StrictCandidates(original_candidates, q)
        candidates == IF strict_candidates # << >> THEN strict_candidates
                      ELSE original_candidates
        scored == Scored(candidates)
        diag == [i \in 1..Len(scored) |-> evaluate_candidate(scored[i][2], q)]
        \* ghost fields, not part of the returned dict: the rows fetchall
        \* returned, the time_diff_seconds each was annotated with, the rows
        \* find_candidate_transactions returned and the size of the working set
        ghost == [fetched |-> {rows[i].key : i \in 1..Len(rows)},
                  time_diffs |-> {<<rows[i].key,
                                    Annotate(rows[i], GatewayArgs(q)).time_diff_seconds>> :
                                     i \in 1..Len(rows)},
                  retrieved |-> {original_candidates[i].key :
                                     i \in 1..Len(original_candidates)},
                  working |-> Len(candidates)]
    IN  IF candidates = << >>
        THEN IF original_candidates = << >>
             THEN [status |-> "NOT_FOUND", best_row |-> << >>, best_match |-> << >>,
                   best_score |-> << >>,
                   candidates |-> << >>, message |-> NoRowsMessage, ghost |-> ghost]
             ELSE [status |-> "NOT_FOUND", best_row |-> << >>, best_match |-> << >>,
                   best_score |-> << >>,
                   candidates |-> [i \in 1..Len(original_candidates) |->
                                      evaluate_candidate(original_candidates[i], q)],
                   message |-> "", ghost |-> ghost]
        ELSE [status |-> DecideStatus(scored[1][2], Len(candidates), q),
              best_row |-> <<scored[1][2]>>, best_match |-> <<diag[1]>>,
              best_score |-> <<scored[1][1][1]>>,
              candidates |-> diag, message |-> "", ghost |-> ghost]

----------------------------------------------------------------------------
(* The inputs: rows of bank_incoming_transaction and slip queries *)

\* The rows the upstream ingestion can have put in the table.  key is the row's
\* physical identity (never read by the code); the numeric id is unique when
\* present, the transaction id need not be.
PoolKeys == 1..9
PoolRow(k) ==
    IF k = 1 THEN  \* the record of scenario A
        [key |-> 1, id |-> 1, transaction_id |-> "", amount |-> 10000,
         transfer_date |-> 7, transfer_time |-> HMS(13, 5, 0),
         sender_account_number |-> <<"1", "2", "3", "4", "X", "6", "7", "8", "9">>,
         sender_account |-> NoAccount,
         receiver_account_number |-> <<"x", "x", "x", "-", "x", "-", "x", "6", "7", "8", "9">>,
         sender_name |-> NoAccount, status_reconcile |-> NULL,
         api_caller_id |-> NULL, api_called_at |-> NoneInt]
    ELSE IF k = 2 THEN  \* scenario B, 10 minutes from 13:00
        [key |-> 2, id |-> 2, transaction_id |-> "", amount |-> 5000,
         transfer_date |-> 7, transfer_time |-> HMS(13, 10, 0),
         sender_account_number |-> NoAccount,
         sender_account |-> NoAccount,
         receiver_account_number |-> NoAccount,
         sender_name |-> NoAccount, status_reconcile |-> NULL,
         api_caller_id |-> NULL, api_called_at |-> NoneInt]
    ELSE IF k = 3 THEN  \* scenario B, 40 minutes from 13:00
        [key |-> 3, id |-> 3, transaction_id |-> "", amount |-> 5000,
         transfer_date |-> 7, transfer_time |-> HMS(13, 40, 0),
         sender_account_number |-> NoAccount,
         sender_account |-> NoAccount,
         receiver_account_number |-> NoAccount,
         sender_name |-> NoAccount, status_reconcile |-> NULL,
         api_caller_id |-> NULL, api_called_at |-> NoneInt]
    ELSE IF k = 4 THEN  \* no numeric id, identified by its transaction id
        [key |-> 4, id |-> NoneInt, transaction_id |-> "TX1", amount |-> 5000,
         transfer_date |-> 7, transfer_time |-> HMS(13, 10, 0),
         sender_account_number |-> NoAccount,
         sender_account |-> NoAccount,
         receiver_account_number |-> NoAccount,
         sender_name |-> NoAccount, status_reconcile |-> NULL,
         api_caller_id |-> NULL, api_called_at |-> NoneInt]
    ELSE IF k = 5 THEN  \* no numeric id, same transaction id, no time
        [key |-> 5, id |-> NoneInt, transaction_id |-> "TX1", amount |-> 5000,
         transfer_date |-> 8, transfer_time |-> NoneInt,
         sender_account_number |-> NoAccount,
         sender_account |-> NoAccount,
         receiver_account_number |-> NoAccount,
         sender_name |-> NoAccount, status_reconcile |-> NULL,
         api_caller_id |-> NULL, api_called_at |-> NoneInt]
    ELSE IF k = 6 THEN  \* neither id nor transaction id
        [key |-> 6, id |-> NoneInt, transaction_id |-> "", amount |-> 10000,
         transfer_date |-> 7, transfer_time |-> HMS(13, 7, 0),
         sender_account_number |-> NoAccount,
         sender_account |-> <<"1", "2", "3", "-", "4", "5", "6", "-", "7", "8", "9">>,
         receiver_account_number |-> NoAccount,
         sender_name |-> NoAccount, status_reconcile |-> NULL,
         api_caller_id |-> NULL, api_called_at |-> NoneInt]
    ELSE IF k = 7 THEN  \* a store-specific status
        [key |-> 7, id |-> 7, transaction_id |-> "", amount |-> 10000,
         transfer_date |-> 7, transfer_time |-> HMS(13, 5, 0),
         sender_account_number |-> NoAccount,
         sender_account |-> NoAccount,
         receiver_account_number |-> NoAccount,
         sender_name |-> NoAccount, status_reconcile |-> "PENDING",
         api_caller_id |-> NULL, api_called_at |-> NoneInt]
    ELSE IF k = 8 THEN  \* already settled
        [key |-> 8, id |-> 8, transaction_id |-> "", amount |-> 5000,
         transfer_date |-> 7, transfer_time |-> HMS(13, 20, 0),
         sender_account_number |-> NoAccount,
         sender_account |-> NoAccount,
         receiver_account_number |-> NoAccount,
         sender_name |-> NoAccount, status_reconcile |-> "MATCHED",
         api_caller_id |-> NULL, api_called_at |-> NoneInt]
    ELSE  \* k = 9: scenario C, time next to midnight
        [key |-> 9, id |-> 9, transaction_id |-> "", amount |-> 7550,
         transfer_date |-> 7, transfer_time |-> HMS(23, 58, 0),
         sender_account_number |-> NoAccount,
         sender_account |-> NoAccount,
         receiver_account_number |-> NoAccount,
         sender_name |-> NoAccount, status_reconcile |-> NULL,
         api_caller_id |-> NULL, api_called_at |-> NoneInt]

\* The slip queries a caller can pass to check_slip_match.
SlipNumbers == 1..8
SlipQuery(n) ==
    IF n = 1 THEN  \* scenario A
        [amount |-> 10000, transfer_date |-> 7, transfer_time |-> HMS(13, 7, 0),
         receiver_account_number |-> NoAccount,
         sender_name |-> NoAccount,
         sender_account_number |-> <<"1", "2", "3", "4", "5", "6", "7", "7", "8", "9">>,
         amount_tolerance |-> 0, date_tolerance_days |-> 1,
         time_tolerance_minutes |-> 60, limit |-> 20]
    ELSE IF n = 2 THEN  \* scenario A with a sender account that differs only at the masked position, web policy
        [amount |-> 10000, transfer_date |-> 7, transfer_time |-> HMS(13, 7, 0),
         receiver_account_number |-> <<"x", "x", "x", "-", "x", "-", "x", "6", "7", "8", "9">>,
         sender_name |-> NoAccount,
         sender_account_number |-> <<"1", "2", "3", "4", "5", "6", "7", "8", "9">>,
         amount_tolerance |-> 0, date_tolerance_days |-> 0,
         time_tolerance_minutes |-> 5, limit |-> 20]
    ELSE IF n = 3 THEN  \* scenario B
        [amount |-> 5000, transfer_date |-> 7, transfer_time |-> HMS(13, 0, 0),
         receiver_account_number |-> NoAccount,
         sender_name |-> NoAccount,
         sender_account_number |-> NoAccount,
         amount_tolerance |-> 0, date_tolerance_days |-> 1,
         time_tolerance_minutes |-> 60, limit |-> 20]
    ELSE IF n = 4 THEN  \* scenario B under the web policy of 5 minutes
        [amount |-> 5000, transfer_date |-> 7, transfer_time |-> HMS(13, 0, 0),
         receiver_account_number |-> NoAccount,
         sender_name |-> NoAccount,
         sender_account_number |-> NoAccount,
         amount_tolerance |-> 0, date_tolerance_days |-> 0,
         time_tolerance_minutes |-> 5, limit |-> 20]
    ELSE IF n = 5 THEN  \* no time on the slip
        [amount |-> 5000, transfer_date |-> 7, transfer_time |-> NoneInt,
         receiver_account_number |-> NoAccount,
         sender_name |-> NoAccount,
         sender_account_number |-> NoAccount,
         amount_tolerance |-> 0, date_tolerance_days |-> 1,
         time_tolerance_minutes |-> 60, limit |-> 20]
    ELSE IF n = 6 THEN  \* scenario C
        [amount |-> 7500, transfer_date |-> 7, transfer_time |-> HMS(0, 2, 0),
         receiver_account_number |-> NoAccount,
         sender_name |-> NoAccount,
         sender_account_number |-> NoAccount,
         amount_tolerance |-> 0, date_tolerance_days |-> 1,
         time_tolerance_minutes |-> 60, limit |-> 20]
    ELSE IF n = 7 THEN  \* scenario C with an amount tolerance of 1 THB
        [amount |-> 7500, transfer_date |-> 7, transfer_time |-> HMS(0, 2, 0),
         receiver_account_number |-> NoAccount,
         sender_name |-> NoAccount,
         sender_account_number |-> NoAccount,
         amount_tolerance |-> 100, date_tolerance_days |-> 1,
         time_tolerance_minutes |-> 60, limit |-> 20]
    ELSE  \* n = 8: the amount could not be parsed
        [amount |-> NoneInt, transfer_date |-> 7, transfer_time |-> HMS(13, 0, 0),
         receiver_account_number |-> NoAccount,
         sender_name |-> NoAccount,
         sender_account_number |-> NoAccount,
         amount_tolerance |-> 0, date_tolerance_days |-> 1,
         time_tolerance_minutes |-> 60, limit |-> 20]

----------------------------------------------------------------------------
(* State *)

VARIABLES
    store,    \* bank_incoming_transaction: row key -> row
    slip,     \* the slip query the calls of this behaviour are made with
    calls,    \* per check_slip_match call: where it is and what it returned
    clock,    \* the store's now()
    writes,   \* history: the committed UPDATEs, in commit order
    probe     \* a direct call of a helper or of the gateway: arguments, result

vars == <<store, slip, calls, clock, writes, probe>>

Calls == 1..MaxCalls

\* db_conf.get('caller_id', ...): the web UI passes 'web_ui', the command line
\* its --caller-id (default 'check_transfer')
CallerId(p) == IF p = 1 THEN "web_ui" ELSE "check_transfer"

NoDecision ==
    [status |-> "NONE", best_row |-> << >>, best_match |-> << >>,
     best_score |-> << >>, candidates |-> << >>, message |-> "",
     ghost |-> [fetched |-> {}, time_diffs |-> {}, retrieved |-> {}, working |-> 0]]

\* the keys the write-back adds to the result: reconciled is "absent" when the
\* key is not set
NoReconcile ==
    [already_reconciled |-> FALSE, reconciled |-> "absent",
     reconciled_error |-> "", reconciled_row |-> << >>]

\* no direct call is under way
NoProbe == [pc |-> "none"]

IdleCall ==
    [pc |-> "idle", error |-> "", auto_reconcile |-> FALSE, caller_id |-> NULL,
     result |-> NoDecision, reconcile |-> NoReconcile,
     after |-> {}, wrote |-> {}]

Init ==
    /\ \E K \in SUBSET PoolKeys :
          /\ Cardinality(K) <= MaxRecords
          /\ store = [k \in K |-> PoolRow(k)]
    /\ \E n \in SlipNumbers : slip = SlipQuery(n)
    /\ calls = [p \in Calls |-> IdleCall]
    /\ clock = 1
    /\ writes = << >>
    /\ probe = NoProbe

\* the calls that have returned or raised
Finished == {p \in Calls : calls[p].pc \in {"returned", "raised"}}

\* calls are interchangeable: they begin in the order of their numbers
MayBegin(p) == calls[p].pc = "idle" /\ \A o \in 1..(p - 1) : calls[o].pc # "idle"

----------------------------------------------------------------------------
(* check_slip_match, first part: connect, SELECT, decide (lines 233-489) *)

\* connect_db raises: line 233 is outside the try, the exception leaves
\* check_slip_match
ConnectFails(p) ==
    /\ MayBegin(p)
    /\ calls' = [calls EXCEPT ![p] =
          [@ EXCEPT !.pc = "raised", !.error = "connect_db", !.after = Finished]]
    /\ UNCHANGED <<store, slip, clock, writes, probe>>

\* cur.execute of the SELECT raises: there is no except clause for it, the
\* finally closes the connection and the exception leaves check_slip_match
QueryFails(p) ==
    /\ MayBegin(p)
    /\ calls' = [calls EXCEPT ![p] =
          [@ EXCEPT !.pc = "raised", !.error = "find_candidate_transactions",
                    !.after = Finished]]
    /\ UNCHANGED <<store, slip, clock, writes, probe>>

\* mutant: the write-back follows every MATCHED decision, asked for or not
Retrieve_IgnoresAuto(p) ==
    /\ MayBegin(p)
    /\ \E auto \in BOOLEAN, rows \in FetchAll(store, GatewayArgs(slip)) :
          LET result == MatchDecision(rows, slip)
              goes_on == result.status = "MATCHED" /\ result.best_row # << >>
          IN  calls' = [calls EXCEPT ![p] =
                  [@ EXCEPT !.pc = IF goes_on THEN "writing" ELSE "returned",
                            !.auto_reconcile = auto,
                            !.caller_id = CallerId(p),
                            !.result = result,
                            !.after = Finished]]
    /\ UNCHANGED <<store, slip, clock, writes, probe>>

\* the call gets its rows and decides; it goes on to the write-back only when
\* the status is MATCHED and db_conf asks for auto_reconcile
Retrieve(p) ==
    /\ MayBegin(p)
    /\ \E auto \in BOOLEAN, rows \in FetchAll(store, GatewayArgs(slip)) :
          LET result == MatchDecision(rows, slip)
              goes_on == result.status = "MATCHED" /\ result.best_row # << >> /\ auto
          IN  calls' = [calls EXCEPT ![p] =
                  [@ EXCEPT !.pc = IF goes_on THEN "writing" ELSE "returned",
                            !.auto_reconcile = auto,
                            !.caller_id = CallerId(p),
                            !.result = result,
                            !.after = Finished]]
    /\ UNCHANGED <<store, slip, clock, writes, probe>>

----------------------------------------------------------------------------
(* check_slip_match, second part: the write-back (lines 489-553) *)

\* str(current_status).strip().lower() on the status values of the model
StripLower(st) ==
    IF st = "MATCH" THEN "match"
    ELSE IF st = "MATCHED" THEN "matched"
    ELSE IF st = "PENDING" THEN "pending"
    ELSE st

\* mutant: only the marker score_candidate knows counts as settled
AlreadySettled_MatchedOnly(current_status) ==
    /\ current_status # NULL
    /\ StripLower(current_status) = "matched"

\* current_status and str(current_status).strip().lower() in ('match',
\* 'matched', <the Thai spelling, written "maet" here>)
AlreadySettled(current_status) ==
    /\ current_status # NULL
    /\ StripLower(current_status) \in {"match", "matched", "maet"}

BestRow(p) == calls[p].result.best_row[1]

\* the rows the UPDATE's WHERE clause selects in the store as it is now
UpdateTargets(st, best_row) ==
    IF best_row.id # NoneInt
    THEN {k \in DOMAIN st : st[k].id = best_row.id}
    ELSE IF best_row.transaction_id # ""
    THEN {k \in DOMAIN st : st[k].transaction_id = best_row.transaction_id}
    ELSE {}

HasIdentity(best_row) == best_row.id # NoneInt \/ best_row.transaction_id # ""

\* SET status_reconcile = 'MATCH', api_caller_id = caller_id, api_called_at = now()
UpdatedStore(st, targets, caller_id, now) ==
    [k \in DOMAIN st |->
        IF k \in targets
        THEN [st[k] EXCEPT !.status_reconcile = "MATCH",
                           !.api_caller_id = caller_id,
                           !.api_called_at = now]
        ELSE st[k]]

Return(p, rec, wrote) ==
    calls' = [calls EXCEPT ![p] =
                 [@ EXCEPT !.pc = "returned", !.reconcile = rec, !.wrote = wrote]]

\* the best row, as this call read it, is already settled: no UPDATE
WriteBackAlready(p) ==
    /\ calls[p].pc = "writing"
    /\ AlreadySettled(BestRow(p).status_reconcile)
    /\ Return(p, [already_reconciled |-> TRUE, reconciled |-> "true",
                  reconciled_error |-> "",
                  reconciled_row |-> <<[id |-> BestRow(p).id,
                                        status_reconcile |-> BestRow(p).status_reconcile]>>],
              {})
    /\ UNCHANGED <<store, slip, clock, writes, probe>>

\* the UPDATE ... RETURNING and the commit succeed; fetchone gives one of the
\* updated rows, or None when the WHERE clause selected no row
WriteBackUpdate(p) ==
    /\ calls[p].pc = "writing"
    /\ ~AlreadySettled(BestRow(p).status_reconcile)
    /\ HasIdentity(BestRow(p))
    /\ LET targets == UpdateTargets(store, BestRow(p))
           updated == UpdatedStore(store, targets, calls[p].caller_id, clock)
       IN  /\ store' = updated
           /\ IF targets = {}
              THEN /\ Return(p, [already_reconciled |-> FALSE, reconciled |-> "false",
                                 reconciled_error |-> "no row updated (id/txid mismatch)",
                                 reconciled_row |-> << >>], {})
                   /\ writes' = writes
              ELSE /\ \E k \in targets :
                         Return(p, [already_reconciled |-> FALSE, reconciled |-> "true",
                                    reconciled_error |-> "",
                                    reconciled_row |->
                                        <<[id |-> updated[k].id,
                                           status_reconcile |-> updated[k].status_reconcile]>>],
                                targets)
                   /\ writes' = Append(writes,
                         [call |-> p, keys |-> targets, at |-> clock,
                          before |-> [k \in targets |-> store[k].status_reconcile]])
    /\ clock' = clock + 1
    /\ UNCHANGED <<slip, probe>>

\* mutant: the error is recorded but the UPDATE is not rolled back
WriteBackRaises_NoRollback(p) ==
    /\ calls[p].pc = "writing"
    /\ ~AlreadySettled(BestRow(p).status_reconcile)
    /\ HasIdentity(BestRow(p))
    /\ store' = UpdatedStore(store, UpdateTargets(store, BestRow(p)),
                             calls[p].caller_id, clock)
    /\ Return(p, [already_reconciled |-> FALSE, reconciled |-> "false",
                  reconciled_error |-> "update failed", reconciled_row |-> << >>], {})
    /\ UNCHANGED <<slip, clock, writes, probe>>

\* cur.execute of the UPDATE or conn.commit raises: the except clause rolls
\* back and records the error
WriteBackRaises(p) ==
    /\ calls[p].pc = "writing"
    /\ ~AlreadySettled(BestRow(p).status_reconcile)
    /\ HasIdentity(BestRow(p))
    /\ Return(p, [already_reconciled |-> FALSE, reconciled |-> "false",
                  reconciled_error |-> "update failed", reconciled_row |-> << >>], {})
    /\ UNCHANGED <<store, slip, clock, writes, probe>>

\* neither id nor transaction_id: the RuntimeError of line 531, caught at 546
WriteBackNoIdentity(p) ==
    /\ calls[p].pc = "writing"
    /\ ~AlreadySettled(BestRow(p).status_reconcile)
    /\ ~HasIdentity(BestRow(p))
    /\ Return(p, [already_reconciled |-> FALSE, reconciled |-> "false",
                  reconciled_error |-> "no primary id or transaction_id available to update",
                  reconciled_row |-> << >>], {})
    /\ UNCHANGED <<store, slip, clock, writes, probe>>

\* The environment: another client of the store deletes the row a call has
\* selected, between the call's SELECT and its UPDATE (the case lines 542-544
\* report).
StoreRemove(k) ==
    /\ k \in DOMAIN store
    /\ \E p \in Calls : calls[p].pc = "writing" /\ BestRow(p).key = k
    /\ store' = [j \in DOMAIN store \ {k} |-> store[j]]
    /\ UNCHANGED <<slip, calls, clock, writes, probe>>

Next ==
    \/ \E p \in Calls : ConnectFails(p)
    \/ \E p \in Calls : QueryFails(p)
    \/ \E p \in Calls : Retrieve(p)
    \/ \E p \in Calls : WriteBackAlready(p)
    \/ \E p \in Calls : WriteBackUpdate(p)
    \/ \E p \in Calls : WriteBackRaises(p)
    \/ \E p \in Calls : WriteBackNoIdentity(p)
    \/ \E k \in PoolKeys : StoreRemove(k)

Spec == Init /\ [][Next]_vars

----------------------------------------------------------------------------
(* Direct calls: the account helpers and find_candidate_transactions called
   on their own, with arguments drawn from a pool of account strings *)

\* account strings as slips and bank rows carry them: masked, dashed, of
\* several lengths, without any digit, absent
Accounts ==
    {<<"1", "2", "3", "X", "5", "6">>,
     <<"1", "2", "3", "4", "5", "6">>,
     <<"1", "2", "3", "4">>,
     <<"1", "2", "3", "4", "5">>,
     <<"1", "2", "3", "4", "X", "6", "7", "8", "9">>,
     <<"1", "2", "3", "4", "5", "6", "7", "8", "9">>,
     <<"1", "2", "3", "-", "4", "5", "6", "-", "7", "8", "9">>,
     <<"1", "2", "3", "4", "5", "6", "7", "7", "8", "9">>,
     <<"x", "2", "3", "*", "5", "6">>,
     <<"X", "X", "X", "X", "X", "X">>,
     <<"-", "-">>,
     NoAccount}

Receivers == {NoAccount,
              <<"x", "x", "x", "-", "x", "-", "x", "6", "7", "8", "9">>,
              <<"x", "x", "x", "-", "x", "-", "x", "6", "7", "8", "-", "9">>}

\* a stored row with the amount, date and time of the probe query
ProbeRow(sender, receiver) ==
    [key |-> 1, id |-> 1, transaction_id |-> "", amount |-> 10000,
     transfer_date |-> 7, transfer_time |-> HMS(13, 5, 0),
     sender_account_number |-> sender, sender_account |-> NoAccount,
     receiver_account_number |-> receiver,
     sender_name |-> NoAccount, status_reconcile |-> NULL,
     api_caller_id |-> NULL, api_called_at |-> NoneInt]

\* the arguments of find_candidate_transactions, sender_account_number among
\* them, with the tolerances the web UI passes
ProbeQuery(sender, receiver) ==
    [amount |-> 10000, transfer_date |-> 7, transfer_time |-> HMS(13, 7, 0),
     receiver_account_number |-> receiver, sender_account_number |-> sender,
     sender_name |-> NoAccount,
     amount_tolerance |-> 0, date_tolerance_days |-> 0,
     time_tolerance_minutes |-> 5, limit |-> 20]

InitAccounts ==
    /\ store = [k \in {} |-> PoolRow(k)]
    /\ slip = SlipQuery(1)
    /\ calls = [p \in Calls |-> IdleCall]
    /\ clock = 1
    /\ writes = << >>
    /\ \E a \in Accounts, b \in Accounts, qr \in Receivers, sr \in Receivers :
          probe = [pc |-> "args", a |-> a, b |-> b, qr |-> qr, sr |-> sr]

\* _positional_account_match(a, b)
PositionalMatch ==
    /\ probe.pc = "args"
    /\ probe' = [pc |-> "positional", a |-> probe.a, b |-> probe.b,
                 qr |-> probe.qr, sr |-> probe.sr,
                 result |-> positional_account_match(probe.a, probe.b)]
    /\ UNCHANGED <<store, slip, calls, clock, writes>>

\* find_candidate_transactions(..., receiver_account_number = qr,
\* sender_account_number = a) on a table holding one row with sender b and
\* receiver sr; strict is what the strict filter of check_slip_match says of
\* that row for the same query
FindCandidates ==
    /\ probe.pc = "args"
    /\ LET row == ProbeRow(probe.b, probe.sr)
           args == ProbeQuery(probe.a, probe.qr)
       IN  \E rows \in FetchAll([k \in {1} |-> row], args) :
              probe' = [pc |-> "gateway", a |-> probe.a, b |-> probe.b,
                        qr |-> probe.qr, sr |-> probe.sr,
                        found |-> find_candidate_transactions(rows, args) # << >>,
                        strict |-> StrictPass(Annotate(row, args), args),
                        method |-> SenderMatch(Annotate(row, args), args)]
    /\ UNCHANGED <<store, slip, calls, clock, writes>>

NextAccounts == PositionalMatch \/ FindCandidates

SpecAccounts == InitAccounts /\ [][NextAccounts]_vars

----------------------------------------------------------------------------
(* Properties *)

Returned(p) == calls[p].pc = "returned"
Decided(p) == calls[p].pc \in {"writing", "returned"}

\* p and q overlap: neither began after the other had finished
Concurrent(p, q) == p # q /\ p \notin calls[q].after /\ q \notin calls[p].after

\* the calls that asked for auto-reconcile and selected row k as best candidate
SelectedBest(p, k) ==
    /\ Decided(p) /\ calls[p].auto_reconcile
    /\ calls[p].result.status = "MATCHED"
    /\ calls[p].result.best_row # << >> /\ BestRow(p).key = k

\* C1: among concurrent calls with auto-reconcile that selected the same row
\* as best candidate, at most one performs the UPDATE of that row; every other
\* call writes nothing.
C1_AtMostOneWrite ==
    \A p, q \in Calls : \A k \in PoolKeys :
        (Concurrent(p, q) /\ SelectedBest(p, k) /\ SelectedBest(q, k))
            => ~(k \in calls[p].wrote /\ k \in calls[q].wrote)

\* C2: every change the system made to a row's status_reconcile started from
\* the unset status: no row already matched is re-written and no row with
\* another status value is changed to matched.
C2_OnlyUnsetToMatched ==
    \A i \in 1..Len(writes) : \A k \in writes[i].keys : writes[i].before[k] = NULL

\* q is the second of two calls made in sequence with auto-reconcile on a
\* store where the query matches exactly one row, which the first call p read
\* as not yet settled and able to be identified; no other call runs
InSequence(p, q) ==
    /\ p # q /\ calls[p].after = {} /\ calls[q].after = {p}
    /\ \A r \in Calls \ {p, q} : calls[r].pc = "idle"
    /\ Returned(p) /\ Returned(q)
    /\ calls[p].auto_reconcile /\ calls[q].auto_reconcile
    /\ Cardinality(calls[p].result.ghost.fetched) = 1
    /\ calls[q].result.ghost.fetched = calls[p].result.ghost.fetched
    /\ calls[p].result.status = "MATCHED"
    /\ ~AlreadySettled(BestRow(p).status_reconcile)
    /\ HasIdentity(BestRow(p))
    /\ calls[p].reconcile.reconciled_error = ""

\* C3: idempotence.  Two calls in sequence, auto-reconcile, same query, the
\* query matches exactly one row (not yet settled, with an id or transaction
\* id, the store accepting the UPDATE): the first call writes the row and
\* reports reconciled true; the second reports already_reconciled true, writes
\* nothing, and the row keeps the status and the audit fields the first call
\* gave it.
C3_Idempotent ==
    \A p, q \in Calls :
        InSequence(p, q) =>
            LET k == BestRow(p).key
            IN  /\ calls[p].reconcile.reconciled = "true"
                /\ ~calls[p].reconcile.already_reconciled
                /\ k \in calls[p].wrote
                /\ calls[q].reconcile.already_reconciled
                /\ calls[q].wrote = {}
                /\ Len(writes) = 1 /\ writes[1].call = p
                /\ k \in DOMAIN store =>
                      /\ store[k].status_reconcile = "MATCH"
                      /\ store[k].api_caller_id = calls[p].caller_id
                      /\ store[k].api_called_at = writes[1].at

C3_Witness ==
    \E p, q \in Calls :
        /\ InSequence(p, q)
        /\ calls[q].reconcile.already_reconciled
        /\ BestRow(p).key \in DOMAIN store

\* C4: one call changes at most one row of the store, whether its UPDATE is
\* keyed by the numeric id or by the transaction id.
C4_AtMostOneRowPerCall ==
    \A p \in Calls : Cardinality(calls[p].wrote) <= 1

\* C5: a failed write-back (the UPDATE or the commit raises, the UPDATE
\* selects no row, or the best row has neither id nor transaction id) does not
\* raise: the call returns with its decision (status MATCHED, the same
\* best_match and candidates) unchanged, reconciled false and a reason, and
\* the step leaves every row of the store as it was.
C5_WriteBackFailureIsReported ==
    [][\A p \in Calls :
          calls[p].pc = "writing" =>
             /\ calls'[p].pc # "raised"
             /\ calls'[p].result = calls[p].result
             /\ calls[p].result.status = "MATCHED"
             /\ calls[p].result.best_match # << >>
             /\ (calls'[p].pc = "returned" /\ calls'[p].reconcile.reconciled # "true")
                   => /\ calls'[p].reconcile.reconciled = "false"
                      /\ calls'[p].reconcile.reconciled_error # ""
                      /\ calls'[p].wrote = {}
                      /\ store' = store]_vars

\* the three failures, one per call of the behaviour or shared between them
C5_Witness ==
    \E p \in Calls :
        /\ Returned(p) /\ calls[p].reconcile.reconciled = "false"
        /\ calls[p].reconcile.reconciled_error = "update failed"
        /\ calls[p].result.status = "MATCHED"

\* C6: a call never raises: a failure to connect to the store or to run the
\* candidate query comes back as a result, not as an exception.
C6_NeverRaises ==
    \A p \in Calls : calls[p].pc # "raised"

\* C7: when the store returns no row the call answers NOT_FOUND with no best
\* match, no candidates and the "no rows returned" message; and that message
\* is given only when the store returned no row, not when rows came back and
\* were dropped afterwards.
C7_NoRowsMessageOnlyForNoRows ==
    \A p \in Calls :
        Decided(p) =>
            /\ calls[p].result.ghost.fetched = {} =>
                  /\ calls[p].result.status = "NOT_FOUND"
                  /\ calls[p].result.best_match = << >>
                  /\ calls[p].result.candidates = << >>
                  /\ calls[p].result.message = NoRowsMessage
            /\ calls[p].result.message = NoRowsMessage =>
                  calls[p].result.ghost.fetched = {}

\* the status the rule of the claim gives for best candidate b of a working set
\* of n candidates
C8_Rule(b, n) ==
    LET amount_within == b.amount_diff # NoneInt /\ b.amount_diff <= slip.amount_tolerance
        time_within == \/ b.time_diff_seconds = NoneInt
                       \/ b.time_diff_seconds <= slip.time_tolerance_minutes * 60
    IN  CASE amount_within /\ time_within -> "MATCHED"
          [] ~(amount_within /\ time_within) /\ n = 1 /\ (amount_within \/ time_within)
                -> "MATCHED"
          [] ~(amount_within /\ time_within) /\ n = 1 /\ ~(amount_within \/ time_within)
                -> "POSSIBLE"
          [] OTHER -> "MULTIPLE"

\* C8: with a non-empty working set the status is decided from the candidate
\* of lowest score: MATCHED if its amount_diff is within amount_tolerance and
\* its time_diff_seconds within time_tolerance_minutes (or absent); otherwise,
\* for a working set of one, MATCHED if one of the two holds and POSSIBLE if
\* neither; otherwise MULTIPLE.
C8_StatusFromBestCandidate ==
    \A p \in Calls :
        (Decided(p) /\ calls[p].result.ghost.working > 0) =>
            LET r == calls[p].result
                b == r.candidates[1]
            IN  /\ Len(r.candidates) = r.ghost.working
                /\ r.best_match = <<b>>
                /\ \A i \in 1..Len(r.candidates) :
                      score_candidate(b) <= score_candidate(r.candidates[i])
                /\ r.status = C8_Rule(b, r.ghost.working)

\* the MULTIPLE branch: several candidates, the best not jointly within tolerance
C8_Witness ==
    \E p \in Calls :
        /\ Returned(p) /\ calls[p].result.ghost.working > 1
        /\ calls[p].result.status = "MULTIPLE"

\* scenario B as a call sees it: the query of scenario B, and the store
\* returned the two rows 10 and 40 minutes from the query time
ScenarioB(p) ==
    /\ Decided(p) /\ slip = SlipQuery(3)
    /\ calls[p].result.ghost.fetched = {2, 3}

\* both rows are candidates and pass the strict time check
ScenarioB_BothPass(p) ==
    LET r == calls[p].result
    IN  /\ {r.candidates[i].key : i \in 1..Len(r.candidates)} = {2, 3}
        /\ Len(r.candidates) = 2
        /\ \A i \in 1..2 : r.candidates[i].time_ok
                           /\ r.candidates[i].failed_conditions = << >>

\* C9 as stated: in scenario B both rows pass loose retrieval and the strict
\* time check, and the status is MULTIPLE.
C9_ScenarioB_Multiple ==
    \A p \in Calls :
        ScenarioB(p) => ScenarioB_BothPass(p) /\ calls[p].result.status = "MULTIPLE"

\* C9 as amended: in scenario B both rows pass loose retrieval and the strict
\* time check, and the status is MATCHED, with the row 10 minutes away as
\* best match.
C9_ScenarioB_Matched ==
    \A p \in Calls :
        ScenarioB(p) =>
            /\ ScenarioB_BothPass(p)
            /\ calls[p].result.status = "MATCHED"
            /\ calls[p].result.best_match[1].key = 2
            /\ calls[p].result.best_match[1].time_diff_seconds = 600

C9_Witness ==
    \E p \in Calls : ScenarioB(p) /\ Returned(p) /\ calls[p].result.status = "MATCHED"

\* scenario A as a call sees it: the query of scenario A and the store
\* returned its one row
ScenarioA(p) ==
    /\ Decided(p) /\ slip = SlipQuery(1)
    /\ calls[p].result.ghost.fetched = {1}

\* C10 as stated: in scenario A the status is MATCHED and the best
\* candidate's sender-match method is positional.
C10_ScenarioA_Positional ==
    \A p \in Calls :
        ScenarioA(p) =>
            /\ calls[p].result.status = "MATCHED"
            /\ calls[p].result.best_match[1].sender_match_method = "positional"

\* C10 as amended: in scenario A the status is MATCHED, but the sender
\* account of the query (ten characters) matches the stored one (nine)
\* neither positionally nor on the last four digits: the best candidate has
\* no sender-match method and its diagnostic reports sender_account_mismatch.
C10_ScenarioA_SenderMismatch ==
    \A p \in Calls :
        ScenarioA(p) =>
            LET b == calls[p].result.best_match[1]
            IN  /\ calls[p].result.status = "MATCHED"
                /\ b.key = 1
                /\ b.sender_match_method = "none"
                /\ ~b.sender_ok
                /\ b.failed_conditions = <<"sender_account_mismatch">>

C10_Witness ==
    \E p \in Calls : ScenarioA(p) /\ Returned(p) /\ calls[p].result.status = "MATCHED"

\* scenario C as a call sees it: the query of scenario C (75.00, tolerance
\* 0.00) on a store that holds the row of amount 75.50 and none of amount 75.00
ScenarioC(p) ==
    /\ Decided(p) /\ slip = SlipQuery(6)
    /\ 9 \in DOMAIN store
    /\ \A k \in DOMAIN store : store[k].amount # slip.amount

C12_Deterministic ==
    (\A r \in Calls : ~calls[r].auto_reconcile) =>
        \A p, q \in Calls :
            (Returned(p) /\ Returned(q)) =>
                /\ calls[p].result.status = calls[q].result.status
                /\ calls[p].result.best_match = calls[q].result.best_match
                /\ calls[p].result.candidates = calls[q].result.candidates

\* C13: a step of a call leaves the whole store as it is unless the call
\* decided MATCHED and its configuration asks for auto-reconcile; and a stored
\* row changes only in the write-back of such a call, which reports the row
\* among those it wrote.
C13_StoreFrame ==
    [][/\ \A p \in Calls :
             (/\ calls'[p] # calls[p]
              /\ ~(calls'[p].auto_reconcile /\ calls'[p].result.status = "MATCHED"))
                 => store' = store
       /\ \A k \in DOMAIN store :
             (k \in DOMAIN store' /\ store'[k] # store[k]) =>
                 \E p \in Calls :
                     /\ calls[p].pc = "writing" /\ calls'[p].pc = "returned"
                     /\ calls[p].auto_reconcile
                     /\ calls[p].result.status = "MATCHED"
                     /\ k \in calls'[p].wrote]_vars

\* a call returned MATCHED without auto-reconcile and no row of the store has
\* changed
C13_Witness ==
    \E p \in Calls :
        /\ Returned(p) /\ ~calls[p].auto_reconcile
        /\ calls[p].result.status = "MATCHED"
        /\ BestRow(p).key \in DOMAIN store
        /\ store = [k \in DOMAIN store |-> PoolRow(k)]

\* C14: the time_diff_seconds a fetched row is annotated with, when the stored
\* time a and the query time b are both present, is the smaller of |a - b| and
\* 86400 - |a - b|: it lies between 0 and 43200, and it is 240 for a stored
\* 23:58:00 against a query 00:02:00.
C14_TimeDiffWraps ==
    \A p \in Calls :
        Decided(p) =>
            \A kd \in calls[p].result.ghost.time_diffs :
                LET a == PoolRow(kd[1]).transfer_time
                    b == slip.transfer_time
                    d == IF a >= b THEN a - b ELSE b - a
                IN  (a # NoneInt /\ b # NoneInt) =>
                        /\ kd[2] = IF d <= 86400 - d THEN d ELSE 86400 - d
                        /\ 0 <= kd[2] /\ kd[2] <= 43200
                        /\ (a = HMS(23, 58, 0) /\ b = HMS(0, 2, 0)) => kd[2] = 240

\* a call fetched the row stored at 23:58:00 for a query at 00:02:00
C14_Witness ==
    \E p \in Calls :
        /\ Returned(p) /\ slip.transfer_time = HMS(0, 2, 0)
        /\ \E kd \in calls[p].result.ghost.time_diffs :
              PoolRow(kd[1]).transfer_time = HMS(23, 58, 0) /\ kd[2] = 240

\* C15: positional_match(a, b) is true exactly when a and b, reduced to their
\* digits and the wildcards X, x and *, are both non-empty, have the same
\* length and agree at every position where neither has a wildcard; it is true
\* for "123X56" and "123456" and false for "1234" and "12345".
C15_PositionalMatch ==
    probe.pc = "positional" =>
        LET Kept(ch) == ch \in {"0", "1", "2", "3", "4", "5", "6", "7", "8", "9",
                                "X", "x", "*"}
            Wild(ch) == ch \in {"X", "x", "*"}
            na == SelectSeq(probe.a, Kept)
            nb == SelectSeq(probe.b, Kept)
        IN  /\ probe.result <=>
                  /\ Len(na) > 0 /\ Len(nb) > 0
                  /\ Len(na) = Len(nb)
                  /\ \A i \in 1..Len(na) :
                        (~Wild(na[i]) /\ ~Wild(nb[i])) => na[i] = nb[i]
            /\ (/\ probe.a = <<"1", "2", "3", "X", "5", "6">>
                /\ probe.b = <<"1", "2", "3", "4", "5", "6">>) => probe.result
            /\ (/\ probe.a = <<"1", "2", "3", "4">>
                /\ probe.b = <<"1", "2", "3", "4", "5">>) => ~probe.result

\* positional_match("123X56", "123456") has returned true
C15_Witness ==
    /\ probe.pc = "positional"
    /\ probe.a = <<"1", "2", "3", "X", "5", "6">>
    /\ probe.b = <<"1", "2", "3", "4", "5", "6">>
    /\ probe.result

\* C16: a stored row that satisfies the strict rules for a query (same amount,
\* same date, time within the tolerance, sender account accepted by the
\* positional or the last-four-digits match) is returned by
\* find_candidate_transactions called with the query's receiver and sender
\* accounts: the account prefilters do not exclude it.
C16_PrefiltersKeepStrictMatches ==
    (/\ probe.pc = "gateway"
     /\ probe.strict
     /\ probe.method \in {"positional", "last4"}) => probe.found

\* C17: the score of a candidate whose status_reconcile is the matched marker
\* is its cost (100 * amount_diff + time_diff_seconds / 60) less the bonus of
\* 1000; so a record that the write-back of an earlier call marked is scored,
\* in every later call, 1000 lower than the same record with the status unset.
\* (Scores are in sixtieths, as score_candidate gives them; stated of the best
\* candidate, whose score the result carries.)
C17_MarkedRecordsScoreLower ==
    \A q \in Calls :
        (Decided(q) /\ calls[q].result.best_row # << >>) =>
            LET b == BestRow(q)
                unset == score_candidate([b EXCEPT !.status_reconcile = NULL])
                marked == \/ b.status_reconcile = "MATCHED"
                          \/ \E i \in 1..Len(writes) :
                                /\ writes[i].call \in calls[q].after
                                /\ b.key \in writes[i].keys
            IN  marked => calls[q].result.best_score[1] = unset - 1000 * 60

\* C18: for every candidate of a result where the query time or the stored
\* time is absent, the diagnostic record has time_ok true (as the strict filter
\* has) and its failed_conditions do not contain time_out_of_range.
C18_AbsentTimePasses ==
    \A p \in Calls :
        Decided(p) =>
            \A i \in 1..Len(calls[p].result.candidates) :
                LET d == calls[p].result.candidates[i]
                IN  (\/ slip.transfer_time = NoneInt
                     \/ PoolRow(d.key).transfer_time = NoneInt) =>
                        /\ d.time_ok
                        /\ \A j \in 1..Len(d.failed_conditions) :
                              d.failed_conditions[j] # "time_out_of_range"

\* the rows find_candidate_transactions returned to call p that pass the
\* strict filter
StrictPassers(p) ==
    {k \in calls[p].result.ghost.retrieved : StrictPass(PoolRow(k), slip)}

\* C19: the candidates of a result are exactly the retrieved rows that pass the
\* strict filter when there is one, and every retrieved row when there is none;
\* either way they are in ascending order of score, and the best match is the
\* first of them, of minimal score.
C19_WorkingSetAndOrder ==
    \A p \in Calls :
        Decided(p) =>
            LET r == calls[p].result
                n == Len(r.candidates)
                expected == IF StrictPassers(p) # {} THEN StrictPassers(p)
                            ELSE r.ghost.retrieved
            IN  /\ {r.candidates[i].key : i \in 1..n} = expected
                /\ n = Cardinality(expected)
                /\ \A i, j \in 1..n :
                      i < j => score_candidate(r.candidates[i])
                                  <= score_candidate(r.candidates[j])
                /\ n > 0 => /\ r.best_match = <<r.candidates[1]>>
                            /\ r.best_score = <<score_candidate(r.candidates[1])>>
                            /\ r.best_row[1].key = r.candidates[1].key
                /\ n = 0 => r.best_match = << >>

\* a call retrieved two rows of which one passes the strict filter, and
\* returned that one alone
C19_Witness ==
    \E p \in Calls :
        /\ Returned(p)
        /\ Cardinality(calls[p].result.ghost.retrieved) = 2
        /\ Cardinality(StrictPassers(p)) = 1
        /\ Len(calls[p].result.candidates) = 1

\* C20: whenever the status is MATCHED, and so whenever the write-back marks a
\* record, the best candidate satisfies the four strict rules: its amount is
\* present and equals the query amount (itself present), its date equals the
\* query date, its time is within the tolerance of the query time or one of
\* the two is absent, and its sender account matches the query's when the
\* query gives one.
C20_MatchedSatisfiesStrictRules ==
    \A p \in Calls :
        (Decided(p) /\ calls[p].result.status = "MATCHED") =>
            LET c == PoolRow(BestRow(p).key)
                d == calls[p].result.best_match[1]
            IN  /\ slip.amount # NoneInt /\ c.amount = slip.amount
                /\ d.amount_ok
                /\ c.transfer_date = slip.transfer_date
                /\ d.date_ok
                /\ \/ slip.transfer_time = NoneInt
                   \/ c.transfer_time = NoneInt
                   \/ d.time_ok
                /\ slip.sender_account_number # NoAccount => d.sender_ok

\* C21: a call whose query amount is present, with amount_tolerance >= 0 and a
\* time tolerance given, decides MATCHED whenever find_candidate_transactions
\* returned at least one row; POSSIBLE and MULTIPLE are decided only when the
\* query amount is absent.
C21_AmountPresentMatches ==
    \A p \in Calls :
        Decided(p) =>
            /\ (/\ slip.amount # NoneInt
                /\ slip.amount_tolerance >= 0
                /\ slip.time_tolerance_minutes # NoneInt
                /\ calls[p].result.ghost.retrieved # {})
                   => calls[p].result.status = "MATCHED"
            /\ calls[p].result.status \in {"POSSIBLE", "MULTIPLE"}
                   => slip.amount = NoneInt

\* a call with a query amount got two rows, none of which passes the strict
\* filter, and returned MATCHED
C21_Witness ==
    \E p \in Calls :
        /\ Returned(p) /\ slip.amount # NoneInt
        /\ Cardinality(calls[p].result.ghost.retrieved) = 2
        /\ StrictPassers(p) = {}
        /\ calls[p].result.status = "MATCHED"

====
